---- MODULE Spec2Model ----
(***************************************************************************)
(* Model of the recipe rotation scheduler of src/main.py:                  *)
(* MealPrepCalendarGenerator.create_meal_prep_calendar and the selection   *)
(* helper get_next_recipe_avoiding_conflict.                               *)
(*                                                                         *)
(* One run of create_meal_prep_calendar is a state machine: the local      *)
(* variables of the function are the state, and every pass through the     *)
(* lunch block, the dinner block and the overflow loop body is one action. *)
(* random.choice is a nondeterministic pick from the list it is given.     *)
(* Dates are day numbers; the date field of an event is its offset from     *)
(* current_date, the date of the first meal.                               *)
(***************************************************************************)
EXTENDS Integers, Sequences, FiniteSets

\* ---------------------------------------------------------------- bounds
MaxPool == 3
MaxDays == 4
MaxWeeks == 1
MaxSeed == 1
MaxRuns == 2

\* ------------------------------------------------------- program constants
\* the slice used_recent[-2:] handed to the selection
RecentWindow == 2

\* ---------------------------------------------------------------- inputs
\* Urls are opaque: the program only compares them for equality.
UrlNames == <<"a", "b", "c">>
Urls == {UrlNames[k] : k \in DOMAIN UrlNames}
None == "None"
NoRecipe == [url |-> None, days |-> 0]
Recipes == [url : Urls, days : 1..MaxDays]

RECURSIVE SeqsUpTo(_, _)
SeqsUpTo(S, n) ==
    IF n = 0 THEN {<<>>}
    ELSE LET shorter == SeqsUpTo(S, n - 1)
         IN  shorter \cup {Append(s, x) : s \in {t \in shorter : Len(t) = n - 1}, x \in S}

\* Urls are named in order of first appearance in the pool: every pool is such a
\* pool up to a renaming of its urls, and the forced urls range over all names.
FirstAppearanceOrder(pool) ==
    \A i \in DOMAIN pool : \A k \in DOMAIN UrlNames :
        pool[i].url = UrlNames[k] =>
            \A m \in 1..(k - 1) : \E j \in 1..(i - 1) : pool[j].url = UrlNames[m]

Pools == {pool \in SeqsUpTo(Recipes, MaxPool) : FirstAppearanceOrder(pool)}

NoCall == [prev_url |-> None, used_recent |-> <<>>, conflicting_url |-> None]

\* The --start-date values tried: not supplied (the empty list), or one day.
StartDates == {<<>>, <<3>>}

\* The allergies read from the allergies file: none, or one.
AllergyLists == {<<>>, <<"nuts">>}

\* --seed: not supplied (the empty list), or an integer.
Seeds == {<<>>} \cup {<<n>> : n \in 0..MaxSeed}

\* The urls of the run that urlparse cannot split (an unbalanced bracket in the
\* host, for one): none, or the second url of the pool.
MalformedSets == {{}, {UrlNames[2]}}

\* The states of the model's random generator.
RngPeriod == 6

VARIABLES
    recipes, num_weeks, first_lunch_url, first_dinner_url,
    start_date, now, allergies, seed, malformed,
    rng, recipe_cache, title_calls, content_calls, allergy_calls,
    earlier_runs,
    pc, day, all_events,
    prev_lunch_url, prev_dinner_url,
    lunch_used_recent, dinner_used_recent,
    current_lunch_recipe, current_dinner_recipe,
    lunch_days_remaining, dinner_days_remaining,
    max_overflow, overflow_days,
    choice_calls, call_args, call_result, output

inputs == <<recipes, num_weeks, first_lunch_url, first_dinner_url, seed, malformed>>
environment == <<start_date, now, allergies>>
lookups == <<recipe_cache, title_calls, content_calls, allergy_calls>>
lunch_state == <<prev_lunch_url, lunch_used_recent, current_lunch_recipe, lunch_days_remaining>>
dinner_state == <<prev_dinner_url, dinner_used_recent, current_dinner_recipe, dinner_days_remaining>>
calls == <<choice_calls, call_args, call_result>>
vars == <<inputs, environment, pc, day, all_events, lunch_state, dinner_state,
          max_overflow, overflow_days, calls, output, rng, lookups, earlier_runs>>

\* ------------------------------------------------------- pure helpers
Range(s) == {s[i] : i \in DOMAIN s}

\* The smaller of the two instead of the larger.
Max_takes_smaller(a, b) == IF a >= b THEN b ELSE a

Max(a, b) == IF a >= b THEN a ELSE b

\* used_recent[-2:]
LastTwo(s) == IF Len(s) <= RecentWindow THEN s
              ELSE SubSeq(s, Len(s) - RecentWindow + 1, Len(s))

\* A generator that was never seeded: any element may come.
RandomChoice_unseeded(options) == Range(options)

\* random.choice(options) on a non-empty list: the element the generator's state
\* picks after random.seed(seed), any element when no seed was given.
RandomChoice(options) ==
    IF rng = <<>> THEN Range(options)
    ELSE {options[(rng[1] % Len(options)) + 1]}

\* The generator's state after one draw.
NextRandom(r) ==
    IF r = <<>> THEN <<>> ELSE <<(r[1] + 1) % RngPeriod>>

\* random.seed(seed) in __init__, when a seed is given.
Seeded(sd) == sd

\* The last recipe with the url instead of the first.
LastWithUrl(pool, url) ==
    IF \E i \in DOMAIN pool : pool[i].url = url
    THEN pool[CHOOSE i \in DOMAIN pool :
                /\ pool[i].url = url
                /\ \A j \in (i + 1)..Len(pool) : pool[j].url # url]
    ELSE NoRecipe

\* next((r for r in recipes if r['url'] == url), None)
FirstWithUrl(pool, url) ==
    IF \E i \in DOMAIN pool : pool[i].url = url
    THEN pool[CHOOSE i \in DOMAIN pool :
                /\ pool[i].url = url
                /\ \A j \in 1..(i - 1) : pool[j].url # url]
    ELSE NoRecipe

level1_options(pool, prev_url, used_recent, conflicting_url) ==
    SelectSeq(pool, LAMBDA r : /\ r.url # prev_url
                               /\ r.url \notin Range(used_recent)
                               /\ r.url # conflicting_url)

\* A level 2 that forgets the conflicting url.
level2_ignores_conflict(pool, prev_url, conflicting_url) ==
    SelectSeq(pool, LAMBDA r : r.url # prev_url)

level2_options(pool, prev_url, conflicting_url) ==
    SelectSeq(pool, LAMBDA r : r.url # prev_url /\ r.url # conflicting_url)

\* A level 3 that does not filter.
level3_unfiltered(pool, conflicting_url) == pool

level3_options(pool, conflicting_url) ==
    SelectSeq(pool, LAMBDA r : r.url # conflicting_url)

\* A chain that goes from level 1 straight to level 3.
winning_options_without_level2(pool, prev_url, used_recent, conflicting_url) ==
    IF level1_options(pool, prev_url, used_recent, conflicting_url) # <<>>
    THEN level1_options(pool, prev_url, used_recent, conflicting_url)
    ELSE IF level3_options(pool, conflicting_url) # <<>>
    THEN level3_options(pool, conflicting_url)
    ELSE pool

\* The list random.choice is applied to by get_next_recipe_avoiding_conflict.
winning_options(pool, prev_url, used_recent, conflicting_url) ==
    IF level1_options(pool, prev_url, used_recent, conflicting_url) # <<>>
    THEN level1_options(pool, prev_url, used_recent, conflicting_url)
    ELSE IF level2_options(pool, prev_url, conflicting_url) # <<>>
    THEN level2_options(pool, prev_url, conflicting_url)
    ELSE IF level3_options(pool, conflicting_url) # <<>>
    THEN level3_options(pool, conflicting_url)
    ELSE pool

\* The recipes a call may return.
get_next_recipe_avoiding_conflict(pool, prev_url, used_recent, conflicting_url) ==
    RandomChoice(winning_options(pool, prev_url, used_recent, conflicting_url))

\* ------------------------------------------------------------ events
\* A prep event dated the day of the first meal whatever the day.
PrepEvent_on_meal_day(slot, d, recipe) ==
    [kind |-> "Prep", slot |-> slot, date |-> d, url |-> recipe.url]

PrepEvent(slot, d, recipe) ==
    [kind |-> "Prep", slot |-> slot, date |-> IF d > 0 THEN d - 1 ELSE d, url |-> recipe.url]

MealEvent(slot, d, recipe) ==
    [kind |-> "Meal", slot |-> slot, date |-> d, url |-> recipe.url]

total_days == num_weeks * 7

\* start_date after "push start date forward by one day": tomorrow when no start
\* date is supplied, the day after the supplied date otherwise.
current_date ==
    IF start_date = <<>> THEN now + 1 ELSE start_date[1] + 1

\* The 'Start Date' column of an event: current_date + timedelta(days=...).
StartDate(e) == current_date + e.date

\* ------------------------------------------------------------ lookups
\* The texts of the Subject and Description columns are not kept in the events
\* of the model: a lookup's result is drawn and dropped, its call is counted.
PageTitle(url) == <<"page title", url>>
FallbackTitle(url) == <<"file name", url>>

\* extract_title(url), the titles a call may return: the title found in the
\* page, or the file name of the url when anything raises in the try block.  The
\* except branch calls urlparse(url) itself, outside any try: for a url urlparse
\* cannot split (and that requests cannot fetch) the call raises, the empty set.
extract_title(url) ==
    IF url \in malformed THEN {} ELSE {PageTitle(url), FallbackTitle(url)}

\* extract_recipe_content(url): the formatted content, or "" on any exception.
extract_recipe_content(url) == {<<>>, <<"ingredients", url>>}

\* check_allergies_and_get_substitutes: ([], {}) without a request when there is
\* no allergy or no content, and when the request or its parsing fails; what the
\* language model found otherwise.
check_allergies_and_get_substitutes(recipe_content, url) ==
    IF allergies = <<>> \/ recipe_content = <<>> THEN {<<>>}
    ELSE {<<>>, <<"allergens", url>>}

\* A check that does not look into the cache.
NeedsAllergyCheck_every_time(url) == allergies # <<>>

\* "if self.allergies: if recipe['url'] not in recipe_cache"
NeedsAllergyCheck(url) == allergies # <<>> /\ url \notin recipe_cache

\* One more call, or n more calls, counted for the url.
Bump(counter, url, n) == [counter EXCEPT ![url] = @ + n]

NoCalls == [u \in Urls |-> 0]

\* The allergy information of a newly assigned recipe: looked up and cached, or
\* read from the cache, or empty when there is no allergy.
GetAllergyInfo(url) ==
    IF NeedsAllergyCheck(url)
    THEN /\ \E recipe_content \in extract_recipe_content(url) :
               check_allergies_and_get_substitutes(recipe_content, url) # {}
         /\ recipe_cache' = recipe_cache \cup {url}
         /\ content_calls' = Bump(content_calls, url, 1)
         /\ allergy_calls' = Bump(allergy_calls, url, 1)
    ELSE UNCHANGED <<recipe_cache, content_calls, allergy_calls>>

\* -------------------------------------------------------------- Init
\* The generator after __init__ and the locals of create_meal_prep_calendar
\* before the size check; no lookup has been made.
Locals ==
    /\ pc = "start"
    /\ day = 0
    /\ all_events = <<>>
    /\ prev_lunch_url = None
    /\ prev_dinner_url = None
    /\ lunch_used_recent = <<>>
    /\ dinner_used_recent = <<>>
    /\ current_lunch_recipe = NoRecipe
    /\ current_dinner_recipe = NoRecipe
    /\ lunch_days_remaining = 0
    /\ dinner_days_remaining = 0
    /\ max_overflow = 0
    /\ overflow_days = 0
    /\ choice_calls = 0
    /\ call_args = NoCall
    /\ call_result = NoRecipe
    /\ output = <<>>
    /\ rng = Seeded(seed)
    /\ recipe_cache = {}
    /\ title_calls = NoCalls
    /\ content_calls = NoCalls
    /\ allergy_calls = NoCalls

\* Every pool and every pair of forced first urls, with urls urlparse can split,
\* no seed, no start date and no allergy: the rotation reads none of the last two.
Init ==
    /\ recipes \in Pools
    /\ num_weeks \in 1..MaxWeeks
    /\ first_lunch_url \in Urls \cup {None}
    /\ first_dinner_url \in Urls \cup {None}
    /\ seed = <<>>
    /\ malformed = {}
    /\ start_date = <<>>
    /\ now = 0
    /\ allergies = <<>>
    /\ earlier_runs = <<>>
    /\ Locals

\* ------------------------------------------------------------ actions
\* len(recipes) < 2: print the error and return.
RejectPool ==
    /\ pc = "start"
    /\ Len(recipes) < 2
    /\ pc' = "error"
    /\ UNCHANGED <<inputs, environment, day, all_events, lunch_state, dinner_state,
                   max_overflow, overflow_days, calls, output, rng, lookups,
                   earlier_runs>>

\* A size check that lets a one-entry pool through.
AcceptPool_one_entry ==
    /\ pc = "start"
    /\ Len(recipes) >= 1
    /\ pc' = IF total_days > 0 THEN "lunch" ELSE "after_loop"
    /\ UNCHANGED <<inputs, environment, day, all_events, lunch_state, dinner_state,
                   max_overflow, overflow_days, calls, output, rng, lookups,
                   earlier_runs>>

\* The pool is accepted; the locals are initialised and the day loop is entered.
AcceptPool ==
    /\ pc = "start"
    /\ Len(recipes) >= 2
    /\ pc' = IF total_days > 0 THEN "lunch" ELSE "after_loop"
    /\ UNCHANGED <<inputs, environment, day, all_events, lunch_state, dinner_state,
                   max_overflow, overflow_days, calls, output, rng, lookups,
                   earlier_runs>>

\* A new lunch whose day of assignment is not counted in its lifespan.
AssignLunch_day_not_counted(recipe) ==
    /\ current_lunch_recipe' = recipe
    /\ lunch_days_remaining' = recipe.days
    /\ prev_lunch_url' = recipe.url
    /\ lunch_used_recent' = Append(lunch_used_recent, recipe.url)
    /\ all_events' = all_events \o <<PrepEvent("Lunch", day, recipe),
                                     MealEvent("Lunch", day, recipe)>>
    /\ title_calls' = Bump(title_calls, recipe.url, 2)
    /\ GetAllergyInfo(recipe.url)
    /\ pc' = "dinner"

\* Assignment of a new lunch recipe: the slot's locals, the title and the allergy
\* information, the prep event, then the meal event (its title looked up again)
\* and the decrement.  When the first title lookup raises, the run ends there,
\* the locals assigned and no event appended.
AssignLunch(recipe) ==
    /\ current_lunch_recipe' = recipe
    /\ prev_lunch_url' = recipe.url
    /\ lunch_used_recent' = Append(lunch_used_recent, recipe.url)
    /\ IF extract_title(recipe.url) = {}
       THEN /\ lunch_days_remaining' = recipe.days
            /\ title_calls' = Bump(title_calls, recipe.url, 1)
            /\ pc' = "crash"
            /\ UNCHANGED <<all_events, recipe_cache, content_calls, allergy_calls>>
       ELSE /\ lunch_days_remaining' = recipe.days - 1
            /\ title_calls' = Bump(title_calls, recipe.url, 2)
            /\ GetAllergyInfo(recipe.url)
            /\ all_events' = all_events \o <<PrepEvent("Lunch", day, recipe),
                                             MealEvent("Lunch", day, recipe)>>
            /\ pc' = "dinner"

LunchForced ==
    /\ pc = "lunch"
    /\ lunch_days_remaining <= 0
    /\ day = 0 /\ first_lunch_url # None
    /\ FirstWithUrl(recipes, first_lunch_url) # NoRecipe
    /\ AssignLunch(FirstWithUrl(recipes, first_lunch_url))
    /\ UNCHANGED <<inputs, environment, day, dinner_state, max_overflow, overflow_days,
                   calls, output, rng, earlier_runs>>

\* sys.exit(1): the forced first lunch is not in the recipe list.
LunchForcedMissing ==
    /\ pc = "lunch"
    /\ lunch_days_remaining <= 0
    /\ day = 0 /\ first_lunch_url # None
    /\ FirstWithUrl(recipes, first_lunch_url) = NoRecipe
    /\ pc' = "exit"
    /\ UNCHANGED <<inputs, environment, day, all_events, lunch_state, dinner_state,
                   max_overflow, overflow_days, calls, output, rng, lookups,
                   earlier_runs>>

\* A lunch selection that stops avoiding the dinner once the dinner has no day left.
LunchSelect_avoids_active_dinner_only ==
    /\ pc = "lunch"
    /\ lunch_days_remaining <= 0
    /\ ~(day = 0 /\ first_lunch_url # None)
    /\ LET args == [prev_url |-> prev_lunch_url,
                    used_recent |-> LastTwo(lunch_used_recent),
                    conflicting_url |-> IF dinner_days_remaining > 0
                                        THEN current_dinner_recipe.url ELSE None]
       IN  \E recipe \in get_next_recipe_avoiding_conflict(
                  recipes, args.prev_url, args.used_recent, args.conflicting_url) :
              /\ AssignLunch(recipe)
              /\ call_args' = args
              /\ call_result' = recipe
    /\ choice_calls' = choice_calls + 1
    /\ rng' = NextRandom(rng)
    /\ UNCHANGED <<inputs, environment, day, dinner_state, max_overflow, overflow_days,
                   output, earlier_runs>>

LunchSelect ==
    /\ pc = "lunch"
    /\ lunch_days_remaining <= 0
    /\ ~(day = 0 /\ first_lunch_url # None)
    /\ LET args == [prev_url |-> prev_lunch_url,
                    used_recent |-> LastTwo(lunch_used_recent),
                    conflicting_url |-> IF current_dinner_recipe # NoRecipe
                                        THEN current_dinner_recipe.url ELSE None]
       IN  \E recipe \in get_next_recipe_avoiding_conflict(
                  recipes, args.prev_url, args.used_recent, args.conflicting_url) :
              /\ AssignLunch(recipe)
              /\ call_args' = args
              /\ call_result' = recipe
    /\ choice_calls' = choice_calls + 1
    /\ rng' = NextRandom(rng)
    /\ UNCHANGED <<inputs, environment, day, dinner_state, max_overflow, overflow_days,
                   output, earlier_runs>>

\* The lunch meal event of a day on which the slot keeps its recipe.
LunchContinue ==
    /\ pc = "lunch"
    /\ lunch_days_remaining > 0
    /\ title_calls' = Bump(title_calls, current_lunch_recipe.url, 1)
    /\ all_events' = Append(all_events, MealEvent("Lunch", day, current_lunch_recipe))
    /\ lunch_days_remaining' = lunch_days_remaining - 1
    /\ pc' = "dinner"
    /\ UNCHANGED <<inputs, environment, day, prev_lunch_url, lunch_used_recent,
                   current_lunch_recipe, dinner_state, max_overflow, overflow_days,
                   calls, output, rng, recipe_cache, content_calls, allergy_calls,
                   earlier_runs>>

\* A day loop that stops one day early.
NextDay_one_short ==
    /\ day' = day + 1
    /\ pc' = IF day + 2 < total_days THEN "lunch" ELSE "after_loop"

\* End of the body of "for day in range(total_days)".
NextDay ==
    /\ day' = day + 1
    /\ pc' = IF day + 1 < total_days THEN "lunch" ELSE "after_loop"

\* Assignment of a new dinner recipe, as for lunch; the day ends after it.
AssignDinner(recipe) ==
    /\ current_dinner_recipe' = recipe
    /\ prev_dinner_url' = recipe.url
    /\ dinner_used_recent' = Append(dinner_used_recent, recipe.url)
    /\ IF extract_title(recipe.url) = {}
       THEN /\ dinner_days_remaining' = recipe.days
            /\ title_calls' = Bump(title_calls, recipe.url, 1)
            /\ pc' = "crash"
            /\ UNCHANGED <<day, all_events, recipe_cache, content_calls, allergy_calls>>
       ELSE /\ dinner_days_remaining' = recipe.days - 1
            /\ title_calls' = Bump(title_calls, recipe.url, 2)
            /\ GetAllergyInfo(recipe.url)
            /\ all_events' = all_events \o <<PrepEvent("Dinner", day, recipe),
                                             MealEvent("Dinner", day, recipe)>>
            /\ NextDay

DinnerForced ==
    /\ pc = "dinner"
    /\ dinner_days_remaining <= 0
    /\ day = 0 /\ first_dinner_url # None
    /\ FirstWithUrl(recipes, first_dinner_url) # NoRecipe
    /\ AssignDinner(FirstWithUrl(recipes, first_dinner_url))
    /\ UNCHANGED <<inputs, environment, lunch_state, max_overflow, overflow_days,
                   calls, output, rng, earlier_runs>>

\* sys.exit(1): the forced first dinner is not in the recipe list.
DinnerForcedMissing ==
    /\ pc = "dinner"
    /\ dinner_days_remaining <= 0
    /\ day = 0 /\ first_dinner_url # None
    /\ FirstWithUrl(recipes, first_dinner_url) = NoRecipe
    /\ pc' = "exit"
    /\ UNCHANGED <<inputs, environment, day, all_events, lunch_state, dinner_state,
                   max_overflow, overflow_days, calls, output, rng, lookups,
                   earlier_runs>>

DinnerSelect ==
    /\ pc = "dinner"
    /\ dinner_days_remaining <= 0
    /\ ~(day = 0 /\ first_dinner_url # None)
    /\ LET args == [prev_url |-> prev_dinner_url,
                    used_recent |-> LastTwo(dinner_used_recent),
                    conflicting_url |-> IF current_lunch_recipe # NoRecipe
                                        THEN current_lunch_recipe.url ELSE None]
       IN  \E recipe \in get_next_recipe_avoiding_conflict(
                  recipes, args.prev_url, args.used_recent, args.conflicting_url) :
              /\ AssignDinner(recipe)
              /\ call_args' = args
              /\ call_result' = recipe
    /\ choice_calls' = choice_calls + 1
    /\ rng' = NextRandom(rng)
    /\ UNCHANGED <<inputs, environment, lunch_state, max_overflow, overflow_days,
                   output, earlier_runs>>

\* The dinner meal event of a day on which the slot keeps its recipe.
DinnerContinue ==
    /\ pc = "dinner"
    /\ dinner_days_remaining > 0
    /\ title_calls' = Bump(title_calls, current_dinner_recipe.url, 1)
    /\ all_events' = Append(all_events, MealEvent("Dinner", day, current_dinner_recipe))
    /\ dinner_days_remaining' = dinner_days_remaining - 1
    /\ NextDay
    /\ UNCHANGED <<inputs, environment, prev_dinner_url, dinner_used_recent,
                   current_dinner_recipe, lunch_state, max_overflow, overflow_days,
                   calls, output, rng, recipe_cache, content_calls, allergy_calls,
                   earlier_runs>>

\* overflow_days = 0; max_overflow = max(...) when a slot still has days remaining.
BeginOverflow ==
    /\ pc = "after_loop"
    /\ overflow_days' = 0
    /\ max_overflow' = IF lunch_days_remaining > 0 \/ dinner_days_remaining > 0
                       THEN Max(lunch_days_remaining, dinner_days_remaining)
                       ELSE 0
    /\ pc' = "overflow"
    /\ UNCHANGED <<inputs, environment, day, all_events, lunch_state, dinner_state,
                   calls, output, rng, lookups, earlier_runs>>

\* An overflow pass that emits an event for both slots whatever their days remaining.
OverflowDay_both_slots ==
    /\ pc = "overflow"
    /\ overflow_days < max_overflow
    /\ all_events' = all_events \o
            <<MealEvent("Lunch", total_days + overflow_days, current_lunch_recipe),
              MealEvent("Dinner", total_days + overflow_days, current_dinner_recipe)>>
    /\ lunch_days_remaining' = IF lunch_days_remaining > 0 THEN lunch_days_remaining - 1
                               ELSE lunch_days_remaining
    /\ dinner_days_remaining' = IF dinner_days_remaining > 0 THEN dinner_days_remaining - 1
                                ELSE dinner_days_remaining
    /\ overflow_days' = overflow_days + 1
    /\ title_calls' = Bump(Bump(title_calls, current_lunch_recipe.url, 1),
                           current_dinner_recipe.url, 1)
    /\ UNCHANGED <<inputs, environment, pc, day, prev_lunch_url, lunch_used_recent,
                   current_lunch_recipe, prev_dinner_url, dinner_used_recent,
                   current_dinner_recipe, max_overflow, calls, output, rng,
                   recipe_cache, content_calls, allergy_calls, earlier_runs>>

\* One pass of "for extra_day in range(max_overflow)"; extra_day = overflow_days.
OverflowDay ==
    /\ pc = "overflow"
    /\ overflow_days < max_overflow
    /\ LET lunch_more == lunch_days_remaining > 0
           dinner_more == dinner_days_remaining > 0
           overflow_date == total_days + overflow_days
           lunch_ev == IF lunch_more
                       THEN <<MealEvent("Lunch", overflow_date, current_lunch_recipe)>>
                       ELSE <<>>
           dinner_ev == IF dinner_more
                        THEN <<MealEvent("Dinner", overflow_date, current_dinner_recipe)>>
                        ELSE <<>>
           lunch_titles == IF lunch_more
                           THEN Bump(title_calls, current_lunch_recipe.url, 1)
                           ELSE title_calls
       IN  /\ all_events' = all_events \o lunch_ev \o dinner_ev
           /\ lunch_days_remaining' = IF lunch_more THEN lunch_days_remaining - 1
                                      ELSE lunch_days_remaining
           /\ dinner_days_remaining' = IF dinner_more THEN dinner_days_remaining - 1
                                       ELSE dinner_days_remaining
           /\ title_calls' = IF dinner_more
                             THEN Bump(lunch_titles, current_dinner_recipe.url, 1)
                             ELSE lunch_titles
    /\ overflow_days' = overflow_days + 1
    /\ UNCHANGED <<inputs, environment, pc, day, prev_lunch_url, lunch_used_recent,
                   current_lunch_recipe, prev_dinner_url, dinner_used_recent,
                   current_dinner_recipe, max_overflow, calls, output, rng,
                   recipe_cache, content_calls, allergy_calls, earlier_runs>>

\* The CSV file is written with every event, in order.  output is the list of
\* files written by the run: empty until the one file is written.
WriteCSV ==
    /\ pc = "overflow"
    /\ overflow_days >= max_overflow
    /\ output' = <<all_events>>
    /\ pc' = "done"
    /\ UNCHANGED <<inputs, environment, day, all_events, lunch_state, dinner_state,
                   max_overflow, overflow_days, calls, rng, lookups, earlier_runs>>

Next ==
    \/ RejectPool
    \/ AcceptPool
    \/ LunchForced
    \/ LunchForcedMissing
    \/ LunchSelect
    \/ LunchContinue
    \/ DinnerForced
    \/ DinnerForcedMissing
    \/ DinnerSelect
    \/ DinnerContinue
    \/ BeginOverflow
    \/ OverflowDay
    \/ WriteCSV

Spec == Init /\ [][Next]_vars

\* ------------------------------------------- the selection on its own
\* One call of get_next_recipe_avoiding_conflict on any non-empty pool, any
\* previous url, any recent window and any conflicting url.
InitSelect ==
    /\ recipes \in Pools \ {<<>>}
    /\ call_args \in [prev_url : Urls \cup {None},
                      used_recent : SeqsUpTo(Urls, RecentWindow),
                      conflicting_url : Urls \cup {None}]
    /\ call_result = NoRecipe
    /\ choice_calls = 0
    /\ pc = "select"
    /\ num_weeks = 1
    /\ first_lunch_url = None
    /\ first_dinner_url = None
    /\ seed = <<>>
    /\ malformed = {}
    /\ start_date = <<>>
    /\ now = 0
    /\ allergies = <<>>
    /\ earlier_runs = <<>>
    /\ day = 0
    /\ all_events = <<>>
    /\ prev_lunch_url = None
    /\ prev_dinner_url = None
    /\ lunch_used_recent = <<>>
    /\ dinner_used_recent = <<>>
    /\ current_lunch_recipe = NoRecipe
    /\ current_dinner_recipe = NoRecipe
    /\ lunch_days_remaining = 0
    /\ dinner_days_remaining = 0
    /\ max_overflow = 0
    /\ overflow_days = 0
    /\ output = <<>>
    /\ rng = Seeded(seed)
    /\ recipe_cache = {}
    /\ title_calls = NoCalls
    /\ content_calls = NoCalls
    /\ allergy_calls = NoCalls

CallSelect ==
    /\ pc = "select"
    /\ \E recipe \in get_next_recipe_avoiding_conflict(
              recipes, call_args.prev_url, call_args.used_recent, call_args.conflicting_url) :
          call_result' = recipe
    /\ choice_calls' = choice_calls + 1
    /\ rng' = NextRandom(rng)
    /\ pc' = "selected"
    /\ UNCHANGED <<inputs, environment, day, all_events, lunch_state, dinner_state,
                   max_overflow, overflow_days, call_args, output, lookups,
                   earlier_runs>>

SpecSelect == InitSelect /\ [][CallSelect]_vars

\* ------------------------------------------------ several runs of the program
\* The pools of the runs that are compared: lifespans of one day or of MaxDays.
RunPools ==
    {pool \in Pools : \A i \in DOMAIN pool : pool[i].days \in {1, MaxDays}}

\* A first run with a seed, on any such pool, with any forced first urls, start
\* date and allergies.
InitRuns ==
    /\ recipes \in RunPools
    /\ num_weeks \in 1..MaxWeeks
    /\ first_lunch_url \in Urls \cup {None}
    /\ first_dinner_url \in Urls \cup {None}
    /\ seed \in Seeds \ {<<>>}
    /\ malformed \in MalformedSets
    /\ start_date \in StartDates
    /\ now = 0
    /\ allergies \in AllergyLists
    /\ earlier_runs = <<>>
    /\ Locals

\* The program is run again, on a later day, with the same recipes, weeks, forced
\* first urls and seed; the start date and the allergies file may have changed.
\* What the run before generated is kept for comparison.
Rerun ==
    /\ pc \in {"done", "error", "exit", "crash"}
    /\ Len(earlier_runs) + 1 < MaxRuns
    /\ earlier_runs' = Append(earlier_runs,
            [all_events |-> all_events, pc |-> pc, start_date |-> start_date,
             now |-> now, allergies |-> allergies])
    /\ UNCHANGED inputs
    /\ start_date' \in StartDates
    /\ now' = now + 1
    /\ allergies' \in AllergyLists
    /\ pc' = "start"
    /\ day' = 0
    /\ all_events' = <<>>
    /\ prev_lunch_url' = None
    /\ prev_dinner_url' = None
    /\ lunch_used_recent' = <<>>
    /\ dinner_used_recent' = <<>>
    /\ current_lunch_recipe' = NoRecipe
    /\ current_dinner_recipe' = NoRecipe
    /\ lunch_days_remaining' = 0
    /\ dinner_days_remaining' = 0
    /\ max_overflow' = 0
    /\ overflow_days' = 0
    /\ choice_calls' = 0
    /\ call_args' = NoCall
    /\ call_result' = NoRecipe
    /\ output' = <<>>
    /\ rng' = Seeded(seed)
    /\ recipe_cache' = {}
    /\ title_calls' = NoCalls
    /\ content_calls' = NoCalls
    /\ allergy_calls' = NoCalls

NextRuns ==
    \/ Next
    \/ Rerun

SpecRuns == InitRuns /\ [][NextRuns]_vars

\* ------------------------------------------------ reading the event list
PoolUrls == {recipes[i].url : i \in DOMAIN recipes}

\* The positions of the meal events of a slot dated d in an event list.
MealsOn(ev, slot, d) ==
    {i \in DOMAIN ev : ev[i].kind = "Meal" /\ ev[i].slot = slot /\ ev[i].date = d}

\* A meal event is a new assignment when the prep event of its slot precedes it.
IsNewAssignment(ev, i) ==
    i > 1 /\ ev[i - 1].kind = "Prep" /\ ev[i - 1].slot = ev[i].slot

OnePerSlotOn(ev, d) ==
    /\ Cardinality(MealsOn(ev, "Lunch", d)) = 1
    /\ Cardinality(MealsOn(ev, "Dinner", d)) = 1

ForcedUrlsInPool ==
    /\ first_lunch_url \in PoolUrls \cup {None}
    /\ first_dinner_url \in PoolUrls \cup {None}

\* ------------------------------------------------------------------ C1
\* C1: with at least 2 distinct urls in the pool and forced first urls that are
\* in the pool (or absent), on every day of the nominal horizon the lunch url
\* differs from the dinner url.
C1_LunchDiffersFromDinner ==
    (Cardinality(PoolUrls) >= 2 /\ ForcedUrlsInPool) =>
        \A d \in 0..(total_days - 1) :
            \A i \in MealsOn(all_events, "Lunch", d), j \in MealsOn(all_events, "Dinner", d) :
                all_events[i].url # all_events[j].url

\* ------------------------------------------------------------------ C2
\* C2: the written output holds exactly one lunch meal event and exactly one
\* dinner meal event for each day of [0, 7*weeks), the days in increasing order
\* and the lunch of a day before its dinner.
C2_OneLunchOneDinnerPerDay ==
    \A f \in DOMAIN output :
        LET ev == output[f]
            nominal == {i \in DOMAIN ev : ev[i].kind = "Meal" /\ ev[i].date < total_days}
        IN  /\ \A d \in 0..(total_days - 1) :
                  /\ OnePerSlotOn(ev, d)
                  /\ \A i \in MealsOn(ev, "Lunch", d), j \in MealsOn(ev, "Dinner", d) : i < j
            /\ \A i, j \in nominal : i < j => ev[i].date <= ev[j].date

\* A finished one-week run whose lunch slot both continued a recipe and rotated.
C2_Witness ==
    /\ pc = "done" /\ output # <<>>
    /\ num_weeks = 1
    /\ \E i, j \in DOMAIN output[1] :
          /\ output[1][i].kind = "Meal" /\ output[1][i].slot = "Lunch"
          /\ output[1][j].kind = "Meal" /\ output[1][j].slot = "Lunch"
          /\ 0 < output[1][i].date /\ output[1][i].date < 7
          /\ 0 < output[1][j].date /\ output[1][j].date < 7
          /\ IsNewAssignment(output[1], i)
          /\ ~IsNewAssignment(output[1], j)

\* ------------------------------------------------ the run of a slot's recipe
CurrentRecipe(slot) ==
    IF slot = "Lunch" THEN current_lunch_recipe ELSE current_dinner_recipe

DaysRemaining(slot) ==
    IF slot = "Lunch" THEN lunch_days_remaining ELSE dinner_days_remaining

\* Position of the last prep event of the slot at or before position i, 0 when
\* there is none.
RECURSIVE LastPrepUpTo(_, _, _)
LastPrepUpTo(ev, slot, i) ==
    IF i = 0 THEN 0
    ELSE IF ev[i].kind = "Prep" /\ ev[i].slot = slot THEN i
    ELSE LastPrepUpTo(ev, slot, i - 1)

LastPrep(ev, slot) == LastPrepUpTo(ev, slot, Len(ev))

\* The meal events of the slot since its last prep event: the run of its current recipe.
CurrentRun(ev, slot) ==
    LET p == LastPrep(ev, slot)
    IN  {i \in (p + 1)..Len(ev) : ev[i].kind = "Meal" /\ ev[i].slot = slot}

\* Days of its lifespan the slot's recipe still has after the nominal horizon.
LeftAtHorizon(ev, slot) ==
    CurrentRecipe(slot).days
        - Cardinality({i \in CurrentRun(ev, slot) : ev[i].date < total_days})

\* The events a step appends.
Appended == SubSeq(all_events', Len(all_events) + 1, Len(all_events'))

Slots == {"Lunch", "Dinner"}

\* ------------------------------------------------------------------ C3
\* C3 as stated: for every day of [0, horizon+overflow) the output holds exactly
\* one lunch event and exactly one dinner event, overflow days included.
C3_OneEachOnEveryDayWithOverflow ==
    \A f \in DOMAIN output :
        \A d \in 0..(total_days + overflow_days - 1) : OnePerSlotOn(output[f], d)

\* C3 amended: every day of [0, horizon) has exactly one lunch event and one
\* dinner event; on overflow day horizon+k a slot has one event when its recipe
\* had more than k days left at the end of the horizon and none otherwise, at
\* least one slot has an event, and no meal event is dated after the overflow.
C3_OverflowDaysHoldLeftoverSlots ==
    \A f \in DOMAIN output :
        LET ev == output[f]
        IN  /\ \A d \in 0..(total_days - 1) : OnePerSlotOn(ev, d)
            /\ \A k \in 0..(overflow_days - 1) :
                  /\ \A slot \in Slots :
                        Cardinality(MealsOn(ev, slot, total_days + k))
                            = IF k < LeftAtHorizon(ev, slot) THEN 1 ELSE 0
                  /\ \E slot \in Slots : MealsOn(ev, slot, total_days + k) # {}
            /\ \A i \in DOMAIN ev :
                  ev[i].kind = "Meal" => ev[i].date < total_days + overflow_days

\* A written output with an overflow day that has a lunch event and no dinner event.
C3_Witness ==
    /\ pc = "done" /\ output # <<>>
    /\ overflow_days >= 2
    /\ MealsOn(output[1], "Lunch", total_days + 1) # {}
    /\ MealsOn(output[1], "Dinner", total_days + 1) = {}
    /\ MealsOn(output[1], "Dinner", total_days) # {}

\* ------------------------------------------------------------------ C4
\* The run of the slot's current recipe, assigned on day D with lifespan N: its
\* prep event is followed at once by the meal event of day D, the run's meal
\* events all carry the recipe's url on consecutive days from D, only the first
\* is a new assignment, the days served and the days remaining add up to N, and
\* a finished program has served all N days.
RunOfCurrentRecipe(slot) ==
    LET ev == all_events
        p == LastPrep(ev, slot)
        r == CurrentRecipe(slot)
        run == CurrentRun(ev, slot)
        n == Cardinality(run)
    IN  IF r = NoRecipe THEN p = 0
        ELSE /\ p > 0 /\ ev[p].url = r.url
             /\ p + 1 \in run
             /\ \A i \in run : /\ ev[i].url = r.url
                               /\ IsNewAssignment(ev, i) <=> (i = p + 1)
             /\ {ev[i].date : i \in run} = ev[p + 1].date..(ev[p + 1].date + n - 1)
             /\ \A i, j \in run : ev[i].date = ev[j].date => i = j
             /\ n + DaysRemaining(slot) = r.days
             /\ pc = "done" => n = r.days

\* A step assigns a new recipe to the slot only when the previous one has no day
\* remaining, and the step of a slot inside the horizon with no day remaining
\* does assign one (unless the run exits on a missing forced url).
RotationOnlyWhenDrained(slot) ==
    LET newprep == \E i \in DOMAIN Appended :
                        Appended[i].kind = "Prep" /\ Appended[i].slot = slot
        slotpc == IF slot = "Lunch" THEN "lunch" ELSE "dinner"
        prev == CurrentRecipe(slot)
        prevfirst == LastPrep(all_events, slot) + 1
    IN  /\ newprep => /\ DaysRemaining(slot) = 0
                      /\ pc = slotpc
                      /\ prev # NoRecipe => day = all_events[prevfirst].date + prev.days
                      /\ \E i \in DOMAIN Appended :
                            /\ Appended[i].kind = "Meal" /\ Appended[i].slot = slot
                            /\ Appended[i].date = day
        /\ (pc = slotpc /\ DaysRemaining(slot) = 0 /\ pc' \notin {pc, "exit"}) => newprep

\* C4: a recipe of lifespan N newly assigned to a slot on day D occupies the slot
\* on days D..D+N-1 (into the overflow days when needed), is marked new on day D
\* only, and the slot's next new assignment is on day D+N when inside the horizon.
C4_LifespanRun ==
    /\ [](RunOfCurrentRecipe("Lunch") /\ RunOfCurrentRecipe("Dinner"))
    /\ [][RotationOnlyWhenDrained("Lunch") /\ RotationOnlyWhenDrained("Dinner")]_vars

\* A lunch of lifespan 3 was assigned on day 5 after an earlier lunch, and served
\* days 5, 6 and the overflow day 7.
C4_Witness ==
    /\ pc = "done" /\ num_weeks = 1
    /\ current_lunch_recipe.days = 3
    /\ Len(lunch_used_recent) >= 2
    /\ {all_events[i].date : i \in CurrentRun(all_events, "Lunch")} = {5, 6, 7}

\* ------------------------------------------------------------------ C5
\* One overflow step: no selection, no recipe change, no prep event, histories
\* unchanged; a slot with days remaining gets one meal event of its current
\* recipe dated the overflow day and one day less, a drained slot gets nothing.
OverflowStepDrainsOnly ==
    (pc = "overflow" /\ pc' = "overflow" /\ overflow_days' # overflow_days) =>
        LET d == total_days + overflow_days
            of(slot) == {i \in DOMAIN Appended : Appended[i].slot = slot}
        IN  /\ overflow_days' = overflow_days + 1
            /\ UNCHANGED <<current_lunch_recipe, current_dinner_recipe,
                           prev_lunch_url, prev_dinner_url,
                           lunch_used_recent, dinner_used_recent, calls>>
            /\ \A i \in DOMAIN Appended :
                  /\ Appended[i].kind = "Meal" /\ Appended[i].date = d
                  /\ Appended[i].url = CurrentRecipe(Appended[i].slot).url
            /\ Cardinality(of("Lunch")) = IF lunch_days_remaining > 0 THEN 1 ELSE 0
            /\ Cardinality(of("Dinner")) = IF dinner_days_remaining > 0 THEN 1 ELSE 0
            /\ lunch_days_remaining' = IF lunch_days_remaining > 0
                                       THEN lunch_days_remaining - 1 ELSE 0
            /\ dinner_days_remaining' = IF dinner_days_remaining > 0
                                        THEN dinner_days_remaining - 1 ELSE 0

\* The overflow days made so far and the days still to drain add up to the larger
\* of the two slots' days left at the end of the horizon; at the end both are drained.
OverflowLength ==
    LET larger(a, b) == IF a >= b THEN a ELSE b
    IN  /\ pc \in {"overflow", "done"} =>
              overflow_days + larger(lunch_days_remaining, dinner_days_remaining)
                  = larger(LeftAtHorizon(all_events, "Lunch"),
                           LeftAtHorizon(all_events, "Dinner"))
        /\ pc = "done" => (lunch_days_remaining = 0 /\ dinner_days_remaining = 0)
        /\ pc \notin {"overflow", "done"} =>
              (overflow_days = 0 /\ \A i \in DOMAIN all_events : all_events[i].date < total_days)

\* C5: after the nominal horizon each slot with days remaining keeps its recipe,
\* one meal event per overflow day, until drained; the number of overflow days is
\* the larger of the two slots' remaining days; nothing is selected in overflow.
C5_OverflowDrain ==
    /\ []OverflowLength
    /\ [][OverflowStepDrainsOnly]_vars

\* The spec's scenario: horizon 7, a lunch of lifespan 4 assigned on day 6 is
\* served on days 6, 7, 8 and 9.
C5_Witness ==
    /\ pc = "done" /\ num_weeks = 1
    /\ current_lunch_recipe.days = 4
    /\ overflow_days = 3
    /\ {all_events[i].date : i \in CurrentRun(all_events, "Lunch")} = {6, 7, 8, 9}

\* ------------------------------------------------------------------ C6
\* Exactly two recipes with distinct urls, each of lifespan 1, no forced first url.
TwoRecipesOfOneDay ==
    /\ Len(recipes) = 2
    /\ recipes[1].url # recipes[2].url
    /\ recipes[1].days = 1 /\ recipes[2].days = 1
    /\ first_lunch_url = None /\ first_dinner_url = None

\* C6 as stated: with such a pool each slot alternates the two recipes, the
\* recipe of day D+1 differing from the slot's recipe of day D.
C6_SlotsAlternate ==
    TwoRecipesOfOneDay =>
        \A slot \in Slots : \A d \in 0..(total_days - 2) :
            \A i \in MealsOn(all_events, slot, d), j \in MealsOn(all_events, slot, d + 1) :
                all_events[i].url # all_events[j].url

\* C6 amended: with such a pool each slot holds the same recipe on every day of
\* the horizon and lunch differs from dinner on every day: after day 0 every
\* selection returns the slot's own previous url (tiers 1 and 2 are empty
\* because the other url is the conflicting one, and tier 3 gives the previous
\* url back), so the previous-url constraint is given up on every later day.
C6_SlotsKeepTheirRecipe ==
    TwoRecipesOfOneDay =>
        /\ \A slot \in Slots : \A d \in 0..(total_days - 2) :
              \A i \in MealsOn(all_events, slot, d), j \in MealsOn(all_events, slot, d + 1) :
                  all_events[i].url = all_events[j].url
        /\ \A d \in 0..(total_days - 1) :
              \A i \in MealsOn(all_events, "Lunch", d), j \in MealsOn(all_events, "Dinner", d) :
                  all_events[i].url # all_events[j].url
        /\ choice_calls > 2 =>
              /\ call_result.url = call_args.prev_url
              /\ call_result.url # call_args.conflicting_url
              /\ call_args.conflicting_url # None

\* A finished run on such a pool.
C6_Witness ==
    TwoRecipesOfOneDay /\ pc = "done" /\ choice_calls = 2 * total_days

\* ------------------------------------------------------------------ C7
\* The four tiers as sets of pool recipes, for the arguments of the call.
Tier(k) ==
    {r \in Range(recipes) :
        /\ k <= 3 => r.url # call_args.conflicting_url
        /\ k <= 2 => r.url # call_args.prev_url
        /\ k <= 1 => r.url \notin Range(call_args.used_recent)}

\* C7: on a non-empty pool the call returns a recipe of the pool that belongs to
\* the first non-empty tier of tier 1, tier 2, tier 3, tier 4, and it always
\* returns one.
C7_FirstNonEmptyTier ==
    /\ pc = "select" => ENABLED CallSelect
    /\ pc = "selected" =>
          /\ call_result \in Range(recipes)
          /\ \E k \in 1..4 :
                /\ call_result \in Tier(k)
                /\ \A m \in 1..(k - 1) : Tier(m) = {}

\* A call answered from tier 4: every pool recipe has the conflicting url.
C7_Witness ==
    /\ pc = "selected"
    /\ Tier(3) = {}
    /\ call_result \in Tier(4)

\* ----------------------------------------------------------------- C10
\* The first recipe of the pool that has the url.
IsFirstWithUrl(recipe, url) ==
    \E i \in DOMAIN recipes :
        /\ recipes[i] = recipe
        /\ recipe.url = url
        /\ \A j \in 1..(i - 1) : recipes[j].url # url

\* The slot's step of day 0 with a forced first url that is in the pool: the
\* slot takes the first pool recipe with that url, with no call of the selection,
\* and its lifespan applies (the day of assignment is its first day).
ForcedFirstUsedDirectly ==
    /\ (pc = "lunch" /\ day = 0 /\ first_lunch_url \in PoolUrls /\ pc' # pc) =>
          /\ IsFirstWithUrl(current_lunch_recipe', first_lunch_url)
          /\ lunch_days_remaining' = current_lunch_recipe'.days - 1
          /\ Appended = <<PrepEvent("Lunch", 0, current_lunch_recipe'),
                          MealEvent("Lunch", 0, current_lunch_recipe')>>
          /\ UNCHANGED calls
    /\ (pc = "dinner" /\ day = 0 /\ first_dinner_url \in PoolUrls /\ pc' # pc) =>
          /\ IsFirstWithUrl(current_dinner_recipe', first_dinner_url)
          /\ dinner_days_remaining' = current_dinner_recipe'.days - 1
          /\ Appended = <<PrepEvent("Dinner", 0, current_dinner_recipe'),
                          MealEvent("Dinner", 0, current_dinner_recipe')>>
          /\ UNCHANGED calls

\* A new assignment after day 0 is one call of the selection on the slot's own
\* previous url and recent window and the other slot's current url: the forced
\* first urls are not among its arguments.
LaterAssignmentsBySelection ==
    /\ (pc = "lunch" /\ day > 0 /\ Len(Appended) = 2) =>
          /\ choice_calls' = choice_calls + 1
          /\ call_args' = [prev_url |-> prev_lunch_url,
                           used_recent |-> LastTwo(lunch_used_recent),
                           conflicting_url |-> current_dinner_recipe.url]
          /\ call_result' = current_lunch_recipe'
    /\ (pc = "dinner" /\ day > 0 /\ Len(Appended) = 2) =>
          /\ choice_calls' = choice_calls + 1
          /\ call_args' = [prev_url |-> prev_dinner_url,
                           used_recent |-> LastTwo(dinner_used_recent),
                           conflicting_url |-> current_lunch_recipe.url]
          /\ call_result' = current_dinner_recipe'

\* Whatever the selection returns comes from the first non-empty tier of its arguments.
CallsAnsweredFromTiers ==
    choice_calls > 0 =>
        \E k \in 1..4 : call_result \in Tier(k) /\ \A m \in 1..(k - 1) : Tier(m) = {}

\* C10: a forced first url that is in the pool gives the slot's recipe of day 0
\* directly, without the tiers and whatever the other slot holds; its lifespan
\* applies; every assignment after day 0 is an ordinary tier selection.
C10_ForcedFirstOnlyOnDayZero ==
    /\ []CallsAnsweredFromTiers
    /\ [][ForcedFirstUsedDirectly /\ LaterAssignmentsBySelection]_vars

\* Day 0 is over, the forced first dinner has the url of the day's lunch, and a
\* later dinner has been selected by a call.
C10_Witness ==
    /\ day > 0
    /\ first_dinner_url \in PoolUrls
    /\ Cardinality(PoolUrls) >= 2
    /\ \E i \in MealsOn(all_events, "Lunch", 0), j \in MealsOn(all_events, "Dinner", 0) :
          /\ all_events[i].url = first_dinner_url
          /\ all_events[j].url = first_dinner_url
    /\ Len(dinner_used_recent) >= 2

\* ------------------------------------------------------------------ C8
\* C8: when the run aborts because a forced first url is not in the pool, no
\* meal event and no prep event has been generated and no output is written.
C8_AbortBeforeAnyEvent ==
    pc = "exit" => (all_events = <<>> /\ output = <<>>)

\* ------------------------------------------------------------------ C9
\* C9: a recipe sequence of fewer than 2 entries ends the run in the error
\* outcome with no selection, no event and no output; a sequence of 2 or more
\* entries is never rejected for its size, whatever its number of distinct urls.
C9_SmallPoolRejected ==
    /\ Len(recipes) < 2 =>
          /\ pc \in {"start", "error"}
          /\ pc = "start" => ENABLED RejectPool
          /\ choice_calls = 0
          /\ all_events = <<>>
          /\ output = <<>>
    /\ Len(recipes) >= 2 =>
          /\ pc # "error"
          /\ pc = "start" => ENABLED AcceptPool

\* A one-entry pool has been rejected.
C9_Witness ==
    pc = "error" /\ Len(recipes) = 1

\* ----------------------------------------------------------------- C11
\* The urls assigned to the slot so far, one per assignment, in order.
UsedRecent(slot) ==
    IF slot = "Lunch" THEN lunch_used_recent ELSE dinner_used_recent

PrepsOf(ev, slot) ==
    {i \in DOMAIN ev : ev[i].kind = "Prep" /\ ev[i].slot = slot}

\* Every prep event is followed at once by the first meal event of the recipe it
\* names, in the same slot, inside the horizon; it is dated the day before that
\* meal, or day 0 when that meal is on day 0; a slot has as many prep events as
\* assignments, the k-th naming the k-th url assigned.
PrepAnnouncesFirstMeal ==
    /\ \A i \in DOMAIN all_events :
          all_events[i].kind = "Prep" =>
              /\ i < Len(all_events)
              /\ all_events[i + 1].kind = "Meal"
              /\ all_events[i + 1].slot = all_events[i].slot
              /\ all_events[i + 1].url = all_events[i].url
              /\ all_events[i + 1].date < total_days
              /\ all_events[i].date = IF all_events[i + 1].date = 0 THEN 0
                                      ELSE all_events[i + 1].date - 1
    /\ \A slot \in Slots :
          /\ Cardinality(PrepsOf(all_events, slot)) = Len(UsedRecent(slot))
          /\ \A i \in PrepsOf(all_events, slot) :
                all_events[i].url =
                    UsedRecent(slot)[Cardinality({j \in PrepsOf(all_events, slot) : j <= i})]

\* A step appends one prep event for a slot when it assigns a recipe to the slot
\* and none otherwise: none when the slot continues its recipe, none in overflow.
PrepOnlyOnAssignment ==
    \A slot \in Slots :
        LET preps == {i \in DOMAIN Appended :
                          Appended[i].kind = "Prep" /\ Appended[i].slot = slot}
            assigned == UsedRecent(slot)' # UsedRecent(slot)
        IN  /\ Cardinality(preps) = IF assigned THEN 1 ELSE 0
            /\ pc \in {"after_loop", "overflow"} => ~assigned
            /\ \A i \in preps :
                  /\ Appended[i].url = CurrentRecipe(slot)'.url
                  /\ Appended[i].date = IF day = 0 THEN 0 ELSE day - 1

\* C11: exactly one prep event per new assignment of a recipe to a slot and none
\* otherwise (continuation days, overflow days); the prep event names the new
\* recipe and is dated the day before its first meal day, or day 0 itself for an
\* assignment on day 0.
C11_OnePrepPerAssignment ==
    /\ []PrepAnnouncesFirstMeal
    /\ [][PrepOnlyOnAssignment]_vars

\* A finished run with overflow days in which the lunch slot rotated on day 4
\* (prep event dated day 3) and continued that recipe on day 5.
C11_Witness ==
    /\ pc = "done" /\ overflow_days > 0
    /\ \E i \in PrepsOf(all_events, "Lunch") :
          /\ all_events[i].date = 3
          /\ all_events[i + 1].date = 4
          /\ \E j \in MealsOn(all_events, "Lunch", 5) :
                all_events[j].url = all_events[i].url /\ ~IsNewAssignment(all_events, j)

\* ----------------------------------------------------------------- C12
\* C12: when a start date is supplied, the meal events of day k are dated the
\* start date + k days; those of day 0 are dated the start date itself.
C12_MealsDatedFromStartDate ==
    start_date # <<>> =>
        \A i \in DOMAIN all_events :
            all_events[i].kind = "Meal" =>
                StartDate(all_events[i]) = start_date[1] + all_events[i].date

\* ----------------------------------------------------------------- C13
\* C13: during one run extract_title is called at most once for each url.
C13_TitleLookedUpOncePerUrl ==
    \A u \in Urls : title_calls[u] <= 1

\* ----------------------------------------------------------------- C14
\* The urls of the events generated so far.
EventUrls == {all_events[i].url : i \in DOMAIN all_events}

\* Each url has had at most one content extraction and one allergy check, both
\* or none; with allergies the urls looked up are the urls that got an event so
\* far, and they are the cached ones; without allergies nothing is looked up.
AllergyLookupOncePerUrl ==
    \A u \in Urls :
        /\ content_calls[u] <= 1
        /\ allergy_calls[u] = content_calls[u]
        /\ content_calls[u] = 1 <=> u \in recipe_cache
        /\ content_calls[u] = 1 <=> (allergies # <<>> /\ u \in EventUrls)

\* A step of a run looks a url up only when it assigns that url to a slot and the
\* url has not been looked up before; assigning a cached url looks nothing up.
AllergyLookupOnlyWhenNotCached ==
    earlier_runs' = earlier_runs =>
        \A u \in Urls :
            /\ content_calls'[u] # content_calls[u] =>
                  /\ u \notin recipe_cache
                  /\ \E i \in DOMAIN Appended :
                        Appended[i].kind = "Prep" /\ Appended[i].url = u
            /\ allergy_calls'[u] # allergy_calls[u] => content_calls'[u] # content_calls[u]
            /\ u \in recipe_cache => u \in recipe_cache'

\* C14: with a non-empty allergy list the content extraction and the allergy
\* check of a url are made at most once in a run, on the url's first assignment,
\* later assignments and meal days reusing the cache; with an empty allergy list
\* they are never made.
C14_AllergyLookupCached ==
    /\ []AllergyLookupOncePerUrl
    /\ [][AllergyLookupOnlyWhenNotCached]_vars

\* A finished run with allergies in which one url, looked up once, was assigned
\* to both slots, three times or more in all.
C14_Witness ==
    /\ pc = "done" /\ allergies # <<>>
    /\ \E u \in Urls :
          /\ content_calls[u] = 1 /\ allergy_calls[u] = 1
          /\ \E i \in PrepsOf(all_events, "Lunch") : all_events[i].url = u
          /\ \E i \in PrepsOf(all_events, "Dinner") : all_events[i].url = u
          /\ Cardinality({i \in DOMAIN all_events :
                             all_events[i].kind = "Prep" /\ all_events[i].url = u}) >= 3

\* ----------------------------------------------------------------- C15
\* The (day, slot, recipe url, new-assignment flag) events of the first n
\* entries of an event list: one per meal event.
RECURSIVE RotationEventsUpTo(_, _)
RotationEventsUpTo(ev, n) ==
    IF n = 0 THEN <<>>
    ELSE IF ev[n].kind = "Meal"
    THEN Append(RotationEventsUpTo(ev, n - 1),
                [day |-> ev[n].date, slot |-> ev[n].slot, url |-> ev[n].url,
                 isNewAssignment |-> IsNewAssignment(ev, n)])
    ELSE RotationEventsUpTo(ev, n - 1)

RotationEvents(ev) == RotationEventsUpTo(ev, Len(ev))

IsPrefix(s, t) == Len(s) <= Len(t) /\ SubSeq(t, 1, Len(s)) = s

Ended == pc \in {"done", "error", "exit", "crash"}

\* C15: a run with the same pool in the same order, the same seed, weeks and
\* forced first urls as an earlier run generates the same (day, slot, url,
\* new-assignment flag) events, one after the other, and ends the same way,
\* whatever the start date, the clock and the allergy list of the two runs.
C15_SameSeedSameSchedule ==
    \A k \in DOMAIN earlier_runs :
        /\ IsPrefix(RotationEvents(all_events), RotationEvents(earlier_runs[k].all_events))
        /\ Ended => /\ pc = earlier_runs[k].pc
                    /\ RotationEvents(all_events) = RotationEvents(earlier_runs[k].all_events)

\* A finished second run, with another start date and allergy list than the
\* first, on a pool of 3 urls and after at least 4 draws.
C15_Witness ==
    /\ pc = "done" /\ Len(earlier_runs) = 1
    /\ earlier_runs[1].pc = "done"
    /\ earlier_runs[1].allergies # allergies
    /\ earlier_runs[1].start_date # start_date
    /\ Cardinality(PoolUrls) = 3
    /\ choice_calls >= 4

\* ----------------------------------------------------------------- C16
\* C16: whatever lookups fail, the run goes on to its end (no exception leaves a
\* lookup), and it generates the events, assignment for assignment and in the
\* same number, of a run with the same draws.
C16_LookupFailuresIsolated ==
    /\ pc # "crash"
    /\ ~Ended => ENABLED Next
    /\ \A k \in DOMAIN earlier_runs :
          /\ IsPrefix(all_events, earlier_runs[k].all_events)
          /\ pc = "done" => Len(all_events) = Len(earlier_runs[k].all_events)

\* ----------------------------------------------------------------- C17
\* The url of the slot's meal event of day d, None when the slot has none.
UrlOn(ev, slot, d) ==
    IF MealsOn(ev, slot, d) = {} THEN None
    ELSE ev[CHOOSE i \in MealsOn(ev, slot, d) : TRUE].url

\* A step that selects a new lunch passes the url of the dinner of the day
\* before as the conflicting url (None on day 0), and with 2 distinct urls in the
\* pool the lunch selected after day 0 is not that dinner; a step that selects a
\* new dinner passes the url of the lunch of the same day.
ConflictingUrlOfSelection ==
    /\ (pc = "lunch" /\ choice_calls' # choice_calls) =>
          /\ call_args'.conflicting_url =
                 IF day = 0 THEN None ELSE UrlOn(all_events, "Dinner", day - 1)
          /\ (day > 0 /\ Cardinality(PoolUrls) >= 2) =>
                 /\ current_lunch_recipe'.url # UrlOn(all_events, "Dinner", day - 1)
                 /\ UrlOn(all_events', "Lunch", day) # UrlOn(all_events, "Dinner", day - 1)
    /\ (pc = "dinner" /\ choice_calls' # choice_calls) =>
          /\ call_args'.conflicting_url = UrlOn(all_events, "Lunch", day)
          /\ call_args'.conflicting_url # None

\* With 2 distinct urls in the pool no lunch newly assigned on a day D > 0 has
\* the url of the dinner of day D-1.
NewLunchDiffersFromDinnerBefore ==
    Cardinality(PoolUrls) >= 2 =>
        \A i \in DOMAIN all_events :
            (/\ all_events[i].kind = "Meal" /\ all_events[i].slot = "Lunch"
             /\ all_events[i].date > 0 /\ IsNewAssignment(all_events, i)) =>
                all_events[i].url # UrlOn(all_events, "Dinner", all_events[i].date - 1)

\* C17: the conflicting url of a lunch selection on day D > 0 is the url of the
\* dinner of day D-1 (none on day 0), that of a dinner selection on day D is the
\* url of the lunch of day D; with at least 2 distinct urls in the pool a lunch
\* newly selected on day D > 0 never equals the dinner of day D-1, also when that
\* dinner ended on day D-1 and the dinner slot rotates on day D.
C17_ConflictingUrlAsymmetry ==
    /\ []NewLunchDiffersFromDinnerBefore
    /\ [][ConflictingUrlOfSelection]_vars

\* Day 3 began with both slots drained: the lunch just selected avoided the
\* dinner of day 2, and the dinner slot is to rotate on day 3 as well.
C17_Witness ==
    /\ pc = "dinner" /\ day = 3
    /\ dinner_days_remaining = 0
    /\ Cardinality(PoolUrls) >= 2
    /\ IsNewAssignment(all_events, Len(all_events))
    /\ call_args.conflicting_url = UrlOn(all_events, "Dinner", 2)
    /\ call_result = current_lunch_recipe

\* ----------------------------------------------------------------- C18
\* With 3 distinct urls in the pool, a selection made for a slot that held a
\* recipe before is handed that recipe's url as the previous url and returns a
\* recipe with another url, from tier 1 or tier 2.
SelectionAvoidsPreviousUrl ==
    (Cardinality(PoolUrls) >= 3 /\ choice_calls' # choice_calls) =>
        LET slot == IF pc = "lunch" THEN "Lunch" ELSE "Dinner"
        IN  /\ call_args'.prev_url = CurrentRecipe(slot).url
            /\ call_args'.prev_url # None =>
                  /\ call_result'.url # call_args'.prev_url
                  /\ slot = "Lunch" => current_lunch_recipe'.url # current_lunch_recipe.url
                  /\ slot = "Dinner" => current_dinner_recipe'.url # current_dinner_recipe.url

\* With 3 distinct urls in the pool, no two successive assignments of a slot,
\* from the second assignment to the third on, have the same url (the first
\* assignment may be a forced one, and every later one is a selection).
NoBackToBackRepeat ==
    Cardinality(PoolUrls) >= 3 =>
        \A slot \in Slots : \A i \in 1..(Len(UsedRecent(slot)) - 1) :
            UsedRecent(slot)[i] # UsedRecent(slot)[i + 1]

\* C18: with at least 3 distinct urls in the pool every rotation of a slot after
\* its first recipe picks a recipe whose url differs from the url the slot held
\* just before: no slot repeats its previous recipe back to back.
C18_NoBackToBackRepeat ==
    /\ []NoBackToBackRepeat
    /\ [][SelectionAvoidsPreviousUrl]_vars

\* A selection on a pool of 3 urls answered from tier 2: the two urls of the
\* slot's recent window and the conflicting url cover the pool, and the recipe
\* returned is the one of the window that is not the previous url.
C18_Witness ==
    /\ choice_calls > 0
    /\ Cardinality(PoolUrls) = 3
    /\ call_args.prev_url # None
    /\ Tier(1) = {}
    /\ call_result \in Tier(2)
    /\ call_result.url \in Range(call_args.used_recent)

====
